---- MODULE Spec2Model ----
(***************************************************************************)
(* Model of the varint benchmark: the NanoLog nibble-packed codec          *)
(* (src/nanolog.cpp), the per-codec harness step do_codec and the          *)
(* benchmark driver main (src/varint.cpp).                                 *)
(*                                                                         *)
(* A 64-bit unsigned value is the tuple of its 8 bytes, least significant  *)
(* first (the in-memory layout the codecs copy from and to).  A buffer is  *)
(* a tuple of bytes; offsets are 0-based as in the C++ code, so the byte   *)
(* at offset k of buffer b is b[k+1].                                      *)
(***************************************************************************)
EXTENDS Integers, Sequences, FiniteSets, TLC

\* ------------------------------------------------------------------ bounds

\* Longest input sequence handed to do_codec.
MaxLen == 3

\* ------------------------------------------------------------ values, bytes

U64Bytes == 8

V_0   == <<0, 0, 0, 0, 0, 0, 0, 0>>
V_5   == <<5, 0, 0, 0, 0, 0, 0, 0>>
V_256 == <<0, 1, 0, 0, 0, 0, 0, 0>>
V_2P56 == <<0, 0, 0, 0, 0, 0, 0, 1>>
V_MAX == <<255, 255, 255, 255, 255, 255, 255, 255>>

\* The inputs: 0, a one-byte value, a two-byte value, 2^56, 2^64-1.
Values == {V_0, V_5, V_256, V_2P56, V_MAX}

\* Previous content of every byte of the scratch buffer (malloc'ed, never
\* cleared, reused across codecs).
PriorBytes == {0, 255}

\* Content of the memory an indeterminate pointer may point into.
WildBytes == {0, 17}

Pow2(k) == 2 ^ k

RECURSIVE SumTo(_, _)
SumTo(f, n) == IF n = 0 THEN 0 ELSE f[n] + SumTo(f, n - 1)

Fill(n, b) == [k \in 1..n |-> b]

\* memcpy(dst + at, bytes, Len(bytes))
Write(buf, at, bytes) ==
  [k \in 1..Len(buf) |->
     IF k > at /\ k <= at + Len(bytes) THEN bytes[k - at] ELSE buf[k]]

\* ------------------------------------------------ NanoLog Packer (BufferUtils)
\* NanoLog/runtime/Packer.h, as section 4.6 of the specification describes it.

\* TwoNibbles: two 4-bit fields of one byte, first in the high nibble.
NibFirst(b)  == b \div 16
NibSecond(b) == b % 16
SetFirst(b, x)  == 16 * (x % 16) + (b % 16)
SetSecond(b, x) == 16 * (b \div 16) + (x % 16)

\* Minimal byte length of a value: 1..8, a value of 0 has length 1.
ByteLen(v) ==
  IF \A j \in 1..U64Bytes : v[j] = 0 THEN 1
  ELSE CHOOSE j \in 1..U64Bytes : v[j] # 0 /\ \A k \in (j+1)..U64Bytes : v[k] = 0

\* pack<uint64_t>(&out, val): the value's bytes, least significant first,
\* exactly its minimal length; the cursor advances by that length.
pack(buf, out, val) ==
  LET numBytes == ByteLen(val)
  IN [buf |-> Write(buf, out, SubSeq(val, 1, numBytes)),
      out |-> out + numBytes,
      writes |-> out .. (out + numBytes - 1),
      numBytes |-> numBytes]

\* unpack<uint64_t>(&in, n): the next n bytes, zero-extended to 64 bits.
unpack(mem, in, n) ==
  [val |-> [j \in 1..U64Bytes |-> IF j <= n THEN mem[in + j] ELSE 0],
   in |-> in + n,
   reads |-> [j \in 1..n |-> in + j - 1]]

\* -------------------------------------------------------------- NanoLog codec

roundedSize(size) == 2 * (size \div 2)

\* EncodePair with the two length nibbles assigned the wrong way round.
EncodePair_swapped(st, a, b) ==
  LET hdr == st.out
      p1 == pack(st.buf, st.out + 1, a)
      b1 == [p1.buf EXCEPT ![hdr + 1] = SetSecond(@, p1.numBytes)]
      p2 == pack(b1, p1.out, b)
      b2 == [p2.buf EXCEPT ![hdr + 1] = SetFirst(@, p2.numBytes)]
  IN [buf |-> b2, out |-> p2.out,
      writes |-> st.writes \cup {hdr} \cup p1.writes \cup p2.writes]

\* One iteration of nanolog_encode's loop.
EncodePair(st, a, b) ==
  LET hdr == st.out
      p1 == pack(st.buf, st.out + 1, a)
      b1 == [p1.buf EXCEPT ![hdr + 1] = SetFirst(@, p1.numBytes)]
      p2 == pack(b1, p1.out, b)
      b2 == [p2.buf EXCEPT ![hdr + 1] = SetSecond(@, p2.numBytes)]
  IN [buf |-> b2, out |-> p2.out,
      writes |-> st.writes \cup {hdr} \cup p1.writes \cup p2.writes]

\* EncodeLast with the cursor advanced twice past the header.
EncodeLast_hdr2(st, a) ==
  LET hdr == st.out
      p1 == pack(st.buf, st.out + 2, a)
      b1 == [p1.buf EXCEPT ![hdr + 1] = SetFirst(@, p1.numBytes)]
  IN [buf |-> b1, out |-> p1.out,
      writes |-> st.writes \cup {hdr} \cup p1.writes]

\* "Last element was left out": only nibbles->first is assigned.
EncodeLast(st, a) ==
  LET hdr == st.out
      p1 == pack(st.buf, st.out + 1, a)
      b1 == [p1.buf EXCEPT ![hdr + 1] = SetFirst(@, p1.numBytes)]
  IN [buf |-> b1, out |-> p1.out,
      writes |-> st.writes \cup {hdr} \cup p1.writes]

RECURSIVE EncodeLoop(_, _, _)
EncodeLoop(in, i, st) ==
  IF i < roundedSize(Len(in))
  THEN EncodeLoop(in, i + 2, EncodePair(st, in[i + 1], in[i + 2]))
  ELSE st

\* nanolog_encode returning one byte more than it wrote.
nanolog_encode_ret1(in, out_orig) ==
  LET st0 == [buf |-> out_orig, out |-> 0, writes |-> {}]
      st1 == EncodeLoop(in, 0, st0)
      st2 == IF roundedSize(Len(in)) # Len(in)
             THEN EncodeLast(st1, in[Len(in)])
             ELSE st1
  IN [buf |-> st2.buf, ret |-> st2.out + 1, writes |-> st2.writes]

nanolog_encode(in, out_orig) ==
  LET st0 == [buf |-> out_orig, out |-> 0, writes |-> {}]
      st1 == EncodeLoop(in, 0, st0)
      st2 == IF roundedSize(Len(in)) # Len(in)
             THEN EncodeLast(st1, in[Len(in)])
             ELSE st1
  IN [buf |-> st2.buf, ret |-> st2.out - 0, writes |-> st2.writes]

\* One iteration of nanolog_decode's loop: the header byte is read through
\* the cursor `in`, two values are written through `out`.
DecodePair(st, mem, src) ==
  LET hdr == mem[st.in + 1]
      u1 == unpack(mem, st.in + 1, NibFirst(hdr))
      u2 == unpack(mem, u1.in, NibSecond(hdr))
  IN [out |-> [st.out EXCEPT ![st.o + 1] = u1.val, ![st.o + 2] = u2.val],
      o |-> st.o + 2,
      in |-> u2.in,
      reads |-> st.reads \o <<<<src, st.in>>>>
                \o [j \in 1..Len(u1.reads) |-> <<src, u1.reads[j]>>]
                \o [j \in 1..Len(u2.reads) |-> <<src, u2.reads[j]>>],
      outWrites |-> st.outWrites \o <<<<st.o, "full">>, <<st.o + 1, "full">>>>]

\* "Last element was left out": the TwoNibbles pointer is taken from `out`,
\* not from `in`; its 4-bit field `first` is the unpack length and is then
\* assigned the unpacked value (truncated to the field's 4 bits).
DecodeLast(st, mem, src) ==
  LET cell == st.out[st.o + 1]
      u1 == unpack(mem, st.in, NibFirst(cell[1]))
      nib == u1.val[1] % 16
  IN [out |-> [st.out EXCEPT ![st.o + 1] = [cell EXCEPT ![1] = SetFirst(@, nib)]],
      o |-> st.o + 1,
      in |-> u1.in,
      reads |-> st.reads \o <<<<"out", U64Bytes * st.o>>>>
                \o [j \in 1..Len(u1.reads) |-> <<src, u1.reads[j]>>],
      outWrites |-> st.outWrites \o <<<<st.o, "nibble">>>>]

RECURSIVE DecodeLoop(_, _, _, _, _)
DecodeLoop(count, i, st, mem, src) ==
  IF i < roundedSize(count)
  THEN DecodeLoop(count, i + 2, DecodePair(st, mem, src), mem, src)
  ELSE st

\* nanolog_decode(in_orig, out, count).  The cursor `in` is initialised from
\* itself, never from in_orig: its value is indeterminate.  `src` names the
\* memory it turns out to point into ("in_orig": the start of the caller's
\* buffer; "wild": anything else) and `mem` is that memory's content.
nanolog_decode(mem, src, out, count) ==
  LET st0 == [out |-> out, o |-> 0, in |-> 0, reads |-> <<>>, outWrites |-> <<>>]
      st1 == DecodeLoop(count, 0, st0, mem, src)
  IN IF roundedSize(count) # count THEN DecodeLast(st1, mem, src) ELSE st1

\* ------------------------------------------------------- the other codecs
\* LEB128, PrefixVarint, leSQLite and leSQLite2 (leb128_codec, prefix_codec,
\* lesqlite_codec, lesqlite2_codec) as sections 4.2-4.5 of the specification
\* describe them.

Bit(v, i) == (v[(i \div 8) + 1] \div Pow2(i % 8)) % 2

\* Number of significant bits; 0 for the value 0.
BitLen(v) ==
  IF \A i \in 0..63 : Bit(v, i) = 0 THEN 0
  ELSE 1 + CHOOSE i \in 0..63 : Bit(v, i) = 1 /\ \A k \in (i+1)..63 : Bit(v, k) = 0

\* The 8 bytes of the value whose bit i is b[i].
FromBits(b) ==
  [j \in 1..U64Bytes |->
     SumTo([k \in 1..8 |-> b[8 * (j - 1) + k - 1] * Pow2(k - 1)], 8)]

\* Bytes k of the little-endian number whose bit e is b[e], n bytes.
BytesOfBits(b, n) ==
  [j \in 1..n |-> SumTo([k \in 1..8 |-> b[8 * (j - 1) + k - 1] * Pow2(k - 1)], 8)]

\* LEB128: 7 bits per byte, continuation bit 0x80 on all but the last byte.
leb128_len(v) == IF BitLen(v) <= 7 THEN 1 ELSE (BitLen(v) + 6) \div 7

leb128_encode_value(v) ==
  LET n == leb128_len(v)
      group(j) == SumTo([k \in 1..7 |->
                    IF 7 * (j - 1) + k - 1 <= 63
                    THEN Bit(v, 7 * (j - 1) + k - 1) * Pow2(k - 1) ELSE 0], 7)
  IN [j \in 1..n |-> group(j) + (IF j < n THEN 128 ELSE 0)]

leb128_decode_value(mem, in) ==
  LET n == CHOOSE j \in 1..10 : mem[in + j] < 128 /\ \A k \in 1..(j-1) : mem[in + k] >= 128
      b == [i \in 0..63 |->
              IF i \div 7 < n THEN (mem[in + (i \div 7) + 1] \div Pow2(i % 7)) % 2 ELSE 0]
  IN [val |-> FromBits(b), len |-> n]

\* PrefixVarint: k-1 set bits and a clear bit in the low bits of the first
\* byte, then the value's bits; 9 bytes (0xFF and the raw value) at most.
prefix_len(v) ==
  IF BitLen(v) > 56 THEN 9
  ELSE IF BitLen(v) <= 7 THEN 1
  ELSE (BitLen(v) + 6) \div 7

prefix_encode_value(v) ==
  LET k == prefix_len(v)
      b == [e \in 0..(8 * k - 1) |->
              IF e < k - 1 THEN 1 ELSE IF e = k - 1 THEN 0 ELSE Bit(v, e - k)]
  IN IF k = 9 THEN <<255>> \o v ELSE BytesOfBits(b, k)

prefix_decode_value(mem, in) ==
  LET b0 == mem[in + 1]
      t == IF b0 = 255 THEN 8
           ELSE CHOOSE j \in 0..7 : (b0 \div Pow2(j)) % 2 = 0
                                    /\ \A i \in 0..(j-1) : (b0 \div Pow2(i)) % 2 = 1
      k == t + 1
      eb(e) == (mem[in + (e \div 8) + 1] \div Pow2(e % 8)) % 2
      b == [i \in 0..63 |-> IF i + k <= 8 * k - 1 THEN eb(i + k) ELSE 0]
  IN IF k = 9 THEN [val |-> SubSeq(mem, in + 2, in + 9), len |-> 9]
     ELSE [val |-> FromBits(b), len |-> k]

\* leSQLite family: the first byte either is the value or names the bucket;
\* the bucket's remaining bytes are the raw little-endian value.
lesqlite_buckets  == <<1, 2, 3, 4, 6, 8, 9>>
lesqlite2_buckets == <<1, 2, 3, 4, 5, 6, 7, 8, 9>>

\* First-byte values below the cut are the value itself.
BucketCut(t) == 256 - (Len(t) - 1)

BucketOf(t, v) ==
  IF ByteLen(v) = 1 /\ v[1] < BucketCut(t) THEN 1
  ELSE CHOOSE k \in 2..Len(t) : ByteLen(v) <= t[k] - 1
                                /\ \A j \in 2..(k-1) : ByteLen(v) > t[j] - 1

bucket_len(t, v) == t[BucketOf(t, v)]

bucket_encode_value(t, v) ==
  LET k == BucketOf(t, v)
  IN IF k = 1 THEN <<v[1]>>
     ELSE <<BucketCut(t) + k - 2>> \o SubSeq(v, 1, t[k] - 1)

bucket_decode_value(t, mem, in) ==
  LET b0 == mem[in + 1]
      k == b0 - BucketCut(t) + 2
  IN IF b0 < BucketCut(t)
     THEN [val |-> [j \in 1..U64Bytes |-> IF j = 1 THEN b0 ELSE 0], len |-> 1]
     ELSE [val |-> [j \in 1..U64Bytes |-> IF j <= t[k] - 1 THEN mem[in + 1 + j] ELSE 0],
           len |-> t[k]]

EncodeValue(c, v) ==
  CASE c = "leb128"    -> leb128_encode_value(v)
    [] c = "prefix"    -> prefix_encode_value(v)
    [] c = "lesqlite"  -> bucket_encode_value(lesqlite_buckets, v)
    [] c = "lesqlite2" -> bucket_encode_value(lesqlite2_buckets, v)

DecodeValue(c, mem, in) ==
  CASE c = "leb128"    -> leb128_decode_value(mem, in)
    [] c = "prefix"    -> prefix_decode_value(mem, in)
    [] c = "lesqlite"  -> bucket_decode_value(lesqlite_buckets, mem, in)
    [] c = "lesqlite2" -> bucket_decode_value(lesqlite2_buckets, mem, in)

RECURSIVE ValueEncodeLoop(_, _, _, _)
ValueEncodeLoop(c, in, i, st) ==
  IF i < Len(in)
  THEN LET bytes == EncodeValue(c, in[i + 1])
       IN ValueEncodeLoop(c, in, i + 1,
            [buf |-> Write(st.buf, st.out, bytes),
             out |-> st.out + Len(bytes),
             writes |-> st.writes \cup (st.out .. (st.out + Len(bytes) - 1))])
  ELSE st

value_encode(c, in, out_orig) ==
  LET st == ValueEncodeLoop(c, in, 0, [buf |-> out_orig, out |-> 0, writes |-> {}])
  IN [buf |-> st.buf, ret |-> st.out, writes |-> st.writes]

RECURSIVE ValueDecodeLoop(_, _, _, _, _)
ValueDecodeLoop(c, count, st, mem, src) ==
  IF st.o < count
  THEN LET d == DecodeValue(c, mem, st.in)
       IN ValueDecodeLoop(c, count,
            [out |-> [st.out EXCEPT ![st.o + 1] = d.val],
             o |-> st.o + 1,
             in |-> st.in + d.len,
             reads |-> st.reads \o [j \in 1..d.len |-> <<src, st.in + j - 1>>],
             outWrites |-> st.outWrites \o <<<<st.o, "full">>>>],
            mem, src)
  ELSE st

value_decode(c, mem, src, out, count) ==
  ValueDecodeLoop(c, count,
    [out |-> out, o |-> 0, in |-> 0, reads |-> <<>>, outWrites |-> <<>>], mem, src)

\* ------------------------------------------------------- codec descriptors

\* The codecs in the order main runs them.
Codecs == <<"prefix", "leb128", "lesqlite2", "lesqlite", "nanolog">>
CodecSet == {Codecs[k] : k \in 1..Len(Codecs)}

\* codec.encoder(numbers, scratch)
Encoder(c, in, out_orig) ==
  IF c = "nanolog" THEN nanolog_encode(in, out_orig) ELSE value_encode(c, in, out_orig)

\* codec.decoder(in, out, count)
Decoder(c, mem, src, out, count) ==
  IF c = "nanolog" THEN nanolog_decode(mem, src, out, count)
  ELSE value_decode(c, mem, src, out, count)

\* ------------------------------------------------------------------ state

VARIABLES
  \* do_codec(codec, numbers, scratch)
  codec,          \* the codec descriptor's name
  numbers,        \* the input sequence
  scratch,        \* the caller's output buffer
  decompressed,   \* vector<uint64_t> decompressed(numbers.size())
  encodedSize,    \* return value of the timed encode
  pc,             \* the next statement of do_codec
  scratchPrior,   \* scratch as it was when the timed encode was called
  encWrites,      \* offsets of scratch the timed encode wrote
  reads,          \* <<buffer, offset>> of every byte the decoder read, in order
  outWrites,      \* <<index, kind>> of every write of the decoder to decompressed
  inSrc,          \* where the decoder's input cursor pointed
  \* main
  mpc,            \* the next statement of main
  argc,
  numbersLen,     \* numbers.size()
  allocSize,      \* bytes malloc'ed for scratch
  suite,          \* 1: randomUpTo loop, 2: randomBetween loop
  bits,           \* the loop variable i
  step,           \* index into the calls made for one dataset
  dataset,        \* how many datasets have been generated
  owner,          \* who wrote scratch last, and for which dataset
  ops,            \* the operations of the current do_codec call, in order
  checked         \* codecs whose round trip was asserted for this dataset

codecVars == <<codec, numbers, scratch, decompressed, encodedSize, pc,
               scratchPrior, encWrites, reads, outWrites, inSrc>>
mainVars == <<mpc, argc, numbersLen, allocSize, suite, bits, step, dataset,
              owner, ops, checked>>
codecVarsNoSrc == <<codec, numbers, scratch, decompressed, encodedSize, pc,
                    scratchPrior, encWrites, reads, outWrites>>
vars == <<codecVars, mainVars>>

\* ------------------------------------------------------------------ do_codec

\* Capacity of the scratch buffer handed to do_codec: 2x the input's bytes
\* for the longest input.
Cap == 2 * U64Bytes * MaxLen

Inputs == UNION {[1..n -> Values] : n \in 0..MaxLen}

Zeros(n) == [k \in 1..n |-> V_0]

\* The outcomes of reading the decoder's input cursor: nanolog_decode's is
\* indeterminate, every other decoder's is its argument.
DecodeSources(c) == IF c = "nanolog" THEN {"in_orig", "wild"} ELSE {"in_orig"}

\* main is idle while one do_codec call is examined.
MainIdle ==
  /\ mpc = "idle" /\ argc = 1 /\ numbersLen = 0 /\ allocSize = 0
  /\ suite = 1 /\ bits = 8 /\ step = 1 /\ dataset = 0
  /\ owner = [who |-> "none", dataset |-> 0] /\ ops = <<>> /\ checked = {}

\* Entry of do_codec: any codec, any input, any previous scratch content;
\* decompressed is value-initialised.
Init ==
  /\ codec \in CodecSet
  /\ numbers \in Inputs
  /\ \E b \in PriorBytes : scratch = Fill(Cap, b)
  /\ decompressed = Zeros(Len(numbers))
  /\ encodedSize = 0
  /\ pc = "warmup"
  /\ scratchPrior = scratch
  /\ encWrites = {}
  /\ reads = <<>>
  /\ outWrites = <<>>
  /\ inSrc = "none"
  /\ MainIdle

\* codec.encoder(numbers, scratch); // Warmup
WarmupEncode ==
  /\ pc = "warmup"
  /\ scratch' = Encoder(codec, numbers, scratch).buf
  /\ pc' = "timed"
  /\ UNCHANGED <<codec, numbers, decompressed, encodedSize, scratchPrior,
                 encWrites, reads, outWrites, inSrc, mainVars>>

\* uint64_t encodedSize = codec.encoder(numbers, scratch);
TimedEncode ==
  /\ pc = "timed"
  /\ LET e == Encoder(codec, numbers, scratch)
     IN /\ scratch' = e.buf
        /\ encodedSize' = e.ret
        /\ encWrites' = e.writes
  /\ scratchPrior' = scratch
  /\ pc' = "decode"
  /\ UNCHANGED <<codec, numbers, decompressed, reads, outWrites, inSrc, mainVars>>

\* time_decode(scratch, decompressed, codec.decoder):
\* func(in, out.data(), out.size()), once.
time_decode ==
  /\ pc = "decode"
  /\ \E src \in DecodeSources(codec), w \in WildBytes :
       LET mem == IF src = "in_orig" THEN scratch ELSE Fill(Cap, w)
           d == Decoder(codec, mem, src, decompressed, Len(decompressed))
       IN /\ decompressed' = d.out
          /\ reads' = d.reads
          /\ outWrites' = d.outWrites
          /\ inSrc' = src
  /\ pc' = "assert"
  /\ UNCHANGED <<codec, numbers, scratch, encodedSize, scratchPrior, encWrites,
                 mainVars>>

\* assert(decompressed == numbers);
AssertRoundTrip ==
  /\ pc = "assert"
  /\ pc' = IF decompressed = numbers THEN "return" ELSE "abort"
  /\ UNCHANGED <<codec, numbers, scratch, decompressed, encodedSize,
                 scratchPrior, encWrites, reads, outWrites, inSrc, mainVars>>

Next == WarmupEncode \/ TimedEncode \/ time_decode \/ AssertRoundTrip

Spec == Init /\ [][Next]_vars

\* ---------------------------------------------------------------------- main

\* How many uint64_t numbers gen_log_uniform generates.
N == 1000000

\* Lengths of the test-vector file read when argc == 2.
FileLens == {0, 1, N - 1, N, N + 1}

\* The calls main makes for one dataset, in order.
MainSteps == <<"prefix", "leb128", "lesqlite2", "lesqlite", "nanolog",
               "libz-1", "libz-9">>

IsLibz(s) == s \in {"libz-1", "libz-9"}

\* Whether the decoded vector equals the input, given where nanolog_decode's
\* cursor pointed; with an odd count the last element is not decoded.
RoundTripOK(c, src, n) ==
  src = "in_orig" /\ (c = "nanolog" => roundedSize(n) = n)

\* The do_codec call is not examined byte by byte while main runs.
CodecIdle ==
  /\ codec = "none" /\ numbers = <<>> /\ scratch = <<>> /\ decompressed = <<>>
  /\ encodedSize = 0 /\ pc = "idle" /\ scratchPrior = <<>> /\ encWrites = {}
  /\ reads = <<>> /\ outWrites = <<>>

InitMain ==
  /\ CodecIdle
  /\ inSrc = "none"
  /\ mpc = "start"
  /\ argc \in {1, 2}
  /\ numbersLen = 0
  /\ allocSize = 0
  /\ suite = 1 /\ bits = 8 /\ step = 1 /\ dataset = 0
  /\ owner = [who |-> "none", dataset |-> 0]
  /\ ops = <<>>
  /\ checked = {}

\* numbers = read_test_vector(argv[1]) or gen_log_uniform()
ReadOrGenerate ==
  /\ mpc = "start"
  /\ \/ /\ argc = 2
        /\ \E n \in FileLens : numbersLen' = n
        /\ mpc' = "alloc"
     \/ /\ argc = 2          \* fopen fails: perror, exit(1)
        /\ numbersLen' = numbersLen
        /\ mpc' = "exit1"
     \/ /\ argc # 2
        /\ numbersLen' = N
        /\ mpc' = "alloc"
  /\ UNCHANGED <<argc, allocSize, suite, bits, step, dataset, owner, ops,
                 checked, inSrc, codecVarsNoSrc>>

\* allocSize = 2*sizeof(uint64_t)*numbers.size(); scratch = malloc(allocSize)
AllocScratch ==
  /\ mpc = "alloc"
  /\ allocSize' = 2 * U64Bytes * numbersLen
  /\ \/ mpc' = "generate"
     \/ mpc' = "exit1"       \* malloc returned nullptr
  /\ UNCHANGED <<argc, numbersLen, suite, bits, step, dataset, owner, ops,
                 checked, inSrc, codecVarsNoSrc>>

\* numbers = gen_log_uniform(0, i) / gen_log_uniform(i-8, i)
Generate ==
  /\ mpc = "generate"
  /\ numbersLen' = N
  /\ dataset' = dataset + 1
  /\ step' = 1
  /\ checked' = {}
  /\ ops' = <<>>
  /\ mpc' = "warmup"
  /\ UNCHANGED <<argc, allocSize, suite, bits, owner, inSrc, codecVarsNoSrc>>

\* After the last call for a dataset: the next i, the next loop, or the tables.
Advance(nextStep) ==
  IF nextStep <= Len(MainSteps)
  THEN /\ step' = nextStep
       /\ mpc' = "warmup"
       /\ UNCHANGED <<suite, bits>>
  ELSE /\ step' = step
       /\ IF bits + 8 <= 64
          THEN /\ bits' = bits + 8 /\ suite' = suite /\ mpc' = "generate"
          ELSE IF suite = 1
          THEN /\ bits' = 8 /\ suite' = 2 /\ mpc' = "generate"
          ELSE /\ bits' = bits /\ suite' = suite /\ mpc' = "print"

\* An encoder writes at least one byte per value and does not know the
\* buffer's size: past the end of scratch the write is out of bounds.
\* compress2 is told the size.
Overflows(s) == ~IsLibz(s) /\ allocSize < numbersLen

\* The first encoder or compress2 call of do_codec / do_libz.
MainWarmup ==
  /\ mpc = "warmup"
  /\ owner' = [who |-> MainSteps[step], dataset |-> dataset]
  /\ ops' = <<"warmup">>
  /\ \/ mpc' = "timed"
     \/ Overflows(MainSteps[step]) /\ mpc' = "crash"
  /\ UNCHANGED <<argc, numbersLen, allocSize, suite, bits, step, dataset,
                 checked, inSrc, codecVarsNoSrc>>

\* The timed encoder call of do_codec.
MainTimedEncode ==
  /\ mpc = "timed"
  /\ ~IsLibz(MainSteps[step])
  /\ owner' = [who |-> MainSteps[step], dataset |-> dataset]
  /\ ops' = Append(ops, "timed")
  /\ \/ mpc' = "decode"
     \/ Overflows(MainSteps[step]) /\ mpc' = "crash"
  /\ UNCHANGED <<argc, numbersLen, allocSize, suite, bits, step, dataset,
                 checked, inSrc, codecVarsNoSrc>>

\* The timed compress2 call of do_libz; do_libz decodes nothing.
MainTimedLibz ==
  /\ mpc = "timed"
  /\ IsLibz(MainSteps[step])
  /\ owner' = [who |-> MainSteps[step], dataset |-> dataset]
  /\ ops' = Append(ops, "timed")
  /\ Advance(step + 1)
  /\ UNCHANGED <<argc, numbersLen, allocSize, dataset, checked, inSrc,
                 codecVarsNoSrc>>

\* time_decode(scratch, decompressed, codec.decoder)
MainDecode ==
  /\ mpc = "decode"
  /\ \E src \in DecodeSources(MainSteps[step]) : inSrc' = src
  /\ ops' = Append(ops, "decode")
  /\ mpc' = "assert"
  /\ UNCHANGED <<argc, numbersLen, allocSize, suite, bits, step, dataset,
                 owner, checked, codecVarsNoSrc>>

\* assert(decompressed == numbers); return
MainAssert ==
  /\ mpc = "assert"
  /\ ops' = Append(ops, "assert")
  /\ IF RoundTripOK(MainSteps[step], inSrc, numbersLen)
     THEN /\ checked' = checked \cup {MainSteps[step]}
          /\ Advance(step + 1)
     ELSE /\ mpc' = "abort"
          /\ UNCHANGED <<checked, suite, bits, step>>
  /\ UNCHANGED <<argc, numbersLen, allocSize, dataset, owner, inSrc,
                 codecVarsNoSrc>>

\* printResults(randomUpTo); printResults(randomBetween);
PrintResults ==
  /\ mpc = "print"
  /\ mpc' = "done"
  /\ UNCHANGED <<argc, numbersLen, allocSize, suite, bits, step, dataset,
                 owner, ops, checked, inSrc, codecVarsNoSrc>>

NextMain ==
  \/ ReadOrGenerate \/ AllocScratch \/ Generate
  \/ MainWarmup \/ MainTimedEncode \/ MainTimedLibz
  \/ MainDecode \/ MainAssert \/ PrintResults

SpecMain == InitMain /\ [][NextMain]_vars

\* ===================================================================== claims

AfterEncode == {"decode", "assert", "return", "abort"}
AfterDecode == {"assert", "return", "abort"}

\* The least n in 1..8 such that the value fits n bytes.
MinBytes(v) ==
  CHOOSE n \in 1..U64Bytes :
    /\ \A j \in (n+1)..U64Bytes : v[j] = 0
    /\ \A m \in 1..(n-1) : \E j \in (m+1)..U64Bytes : v[j] # 0

\* Sum of the minimal byte lengths of the first n values of s.
MinBytesSum(s, n) == SumTo([j \in 1..Len(s) |-> MinBytes(s[j])], n)

\* C1: for every codec and every input sequence, the vector decoded from the
\* buffer the encoder filled equals the input when do_codec reaches its
\* assertion `decompressed == numbers`.
C1_RoundTripAssertion ==
  pc = "assert" => decompressed = numbers

\* C2: NanoLog decodes every element of its own encoding, for even and odd
\* lengths and for a single element: out[i] = S[i] for every i.
C2_NanoLogRoundTripEveryIndex ==
  (codec = "nanolog" /\ pc \in AfterDecode) =>
    \A i \in 1..Len(numbers) : decompressed[i] = numbers[i]

\* C3: the encoder's return value and the bytes it reports written depend
\* only on the input: they equal those of an encode of the same input into
\* a zero-filled buffer, whatever the scratch buffer held before.
C3_EncodeIndependentOfPriorContent ==
  pc \in AfterEncode =>
    LET ref == Encoder(codec, numbers, Fill(Cap, 0))
    IN /\ encodedSize = ref.ret
       /\ SubSeq(scratch, 1, encodedSize) = SubSeq(ref.buf, 1, ref.ret)

\* C4: at every encoder call main makes, scratch holds at least
\* 2 * 8 * len(numbers) bytes for the numbers passed in that call.
C4_ScratchCapacityAtEncode ==
  (mpc \in {"warmup", "timed"} /\ ~IsLibz(MainSteps[step])) =>
    allocSize >= 2 * 8 * numbersLen

\* C5: the encoding of a single value takes at most 9 bytes under
\* PrefixVarint, leSQLite, leSQLite2 and NanoLog, at most 10 under LEB128.
C5_SingleValueSizeBound ==
  (Len(numbers) = 1 /\ pc \in AfterEncode) =>
    encodedSize <= (IF codec = "leb128" THEN 10 ELSE 9)

\* C5 witness: NanoLog has encoded the single value 2^64-1 in 9 bytes.
C5_Witness ==
  /\ codec = "nanolog" /\ numbers = <<V_MAX>> /\ pc = "decode"
  /\ encodedSize = 9

\* C6: on the empty sequence every encoder returns 0 and writes no byte of
\* the output buffer, and every decoder called with count 0 reads no byte
\* and writes no element.
C6_EmptyInput ==
  Len(numbers) = 0 =>
    /\ scratch = scratchPrior
    /\ pc \in AfterEncode => (encodedSize = 0 /\ encWrites = {})
    /\ pc \in AfterDecode =>
         (reads = <<>> /\ outWrites = <<>> /\ decompressed = <<>>)

\* C6 witness: NanoLog has encoded and decoded the empty sequence.
C6_Witness ==
  codec = "nanolog" /\ numbers = <<>> /\ pc = "assert" /\ inSrc = "in_orig"

\* C7: for every pair (a, b) at an even index NanoLog emits one header byte,
\* high nibble the minimal byte length of a, low nibble that of b, then the
\* minimal-length little-endian bytes of a, then those of b; the encoder
\* returns ceil(n/2) plus the sum of the minimal byte lengths.
C7_NanoLogPairLayout ==
  (codec = "nanolog" /\ pc \in AfterEncode) =>
    /\ \A k \in 0..((Len(numbers) \div 2) - 1) :
         LET a == numbers[2 * k + 1]
             b == numbers[2 * k + 2]
             la == MinBytes(a)
             lb == MinBytes(b)
             off == k + MinBytesSum(numbers, 2 * k)
         IN /\ scratch[off + 1] = 16 * la + lb
            /\ SubSeq(scratch, off + 2, off + 1 + la) = SubSeq(a, 1, la)
            /\ SubSeq(scratch, off + 2 + la, off + 1 + la + lb) = SubSeq(b, 1, lb)
    /\ encodedSize = ((Len(numbers) + 1) \div 2) + MinBytesSum(numbers, Len(numbers))

\* C7 witness: NanoLog has encoded a pair of values of different lengths
\* followed by a trailing value.
C7_Witness ==
  /\ codec = "nanolog" /\ pc = "decode"
  /\ numbers = <<V_256, V_MAX, V_5>>
  /\ encodedSize = 13

\* C8: the decoder assigns a full 64-bit value to each of out[0..n-1]
\* exactly once and writes no element at an index >= n.
C8_DecodeWritesEveryElementOnce ==
  pc \in AfterDecode =>
    /\ \A i \in 0..(Len(numbers) - 1) :
         Cardinality({j \in 1..Len(outWrites) : outWrites[j] = <<i, "full">>}) = 1
    /\ \A j \in 1..Len(outWrites) :
         outWrites[j][1] < Len(numbers) /\ outWrites[j][2] = "full"

\* C9: nanolog_decode reads exactly the bytes at offsets 0..r-1 of the
\* caller's input buffer, in order, r being what nanolog_encode returned,
\* and reads no byte of any other buffer.
C9_NanoLogDecodeReadsEncodedBytes ==
  (codec = "nanolog" /\ pc \in AfterDecode) =>
    reads = [j \in 1..encodedSize |-> <<"in_orig", j - 1>>]

\* The order of the harness's operations on scratch: within one do_codec
\* call warm-up encode, timed encode, decode, assertion, on one dataset; when
\* a decode runs, scratch was last written by the same codec's encode of the
\* same dataset; the codecs run in the order prefix, leb128, lesqlite2,
\* lesqlite, nanolog; zlib runs only after all five have been checked.
HarnessOrder ==
  LET Expected == <<"prefix", "leb128", "lesqlite2", "lesqlite", "nanolog">>
      Calls == <<"warmup", "timed", "decode", "assert">>
      cur == MainSteps[step]
  IN /\ Len(ops) <= Len(Calls) /\ ops = SubSeq(Calls, 1, Len(ops))
     /\ mpc \in {"decode", "assert"} =>
          /\ ~IsLibz(cur)
          /\ owner = [who |-> cur, dataset |-> dataset]
          /\ SubSeq(ops, 1, 2) = <<"warmup", "timed">>
     /\ mpc \in {"warmup", "timed", "decode", "assert"} =>
          IF IsLibz(cur)
          THEN checked = {Expected[j] : j \in 1..Len(Expected)}
          ELSE \E k \in 1..Len(Expected) :
                 cur = Expected[k] /\ checked = {Expected[j] : j \in 1..(k - 1)}

\* C10: in every run of main the harness's operations on scratch occur in
\* the order HarnessOrder states, so that every decode reads the bytes the
\* same codec's most recent encode wrote to scratch.
C10_DecodeReadsOwnEncode ==
  /\ HarnessOrder
  /\ (mpc = "assert" /\ Len(ops) = 3) => inSrc = "in_orig"

====
